---- MODULE Spec2Model ----
(***************************************************************************)
(* Model of secure-rag-pipeline:                                           *)
(*   state_manager.py  StateManager (_load_state, is_processed,            *)
(*                     add_processed) and compute_file_hash                *)
(*   ingest.py         setup_env, ingest_docs, vectorize_and_upload, main  *)
(*   rag.py            setup_env, get_rag_chain, print_citations, main     *)
(*   app.py            setup_chat                                          *)
(*                                                                         *)
(* Six specifications share the variables:                                 *)
(*   Spec         repeated runs of ingest.py's main() over a data folder,  *)
(*                with the faults the code has handlers for (hash, load,   *)
(*                move, state write, upload) and process crashes;          *)
(*   TrackerSpec  the StateManager API called directly, on every condition *)
(*                of the backing file;                                     *)
(*   UploadSpec   vectorize_and_upload called directly, on lists of chunks *)
(*                of every length up to MaxChunks;                         *)
(*   HashSpec     compute_file_hash called directly, on every file,        *)
(*                algorithm name and chunk size;                           *)
(*   CiteSpec     the citation renderers of rag.py and app.py on lists of  *)
(*                retrieved passages;                                      *)
(*   ChatSpec     a chat session of rag.py's main() or app.py's            *)
(*                setup_chat() over a chain whose invoke may raise.        *)
(***************************************************************************)
EXTENDS Integers, Sequences, FiniteSets, TLC

(***************************************************************************)
(* Bounds of the model.                                                    *)
(***************************************************************************)
\* longest file content (in bytes) hashed under HashSpec
MaxFileLen == 2
\* largest chunk_size (besides the default) passed under HashSpec
MaxChunkSize == 2
\* number of calls made in one behaviour of TrackerSpec or HashSpec
MaxCalls == 4
\* number of runs of main() in one behaviour of Spec
MaxRuns == 2
\* longest list of retrieved passages handed to a citation renderer
MaxSources == 3
\* UploadSpec: the longest list of chunks handed to vectorize_and_upload
MaxChunks == 101

(***************************************************************************)
(* Values.                                                                 *)
(***************************************************************************)
\* the failure sentinel of compute_file_hash (Python None)
None == 0
\* the JSON object key json.dump writes for a None key: the string "null"
NullKey == -1

Bytes == {0, 1}

RECURSIVE SeqsUpTo(_, _)
SeqsUpTo(S, n) ==
    IF n = 0 THEN {<<>>}
    ELSE LET shorter == SeqsUpTo(S, n - 1)
         IN  shorter \cup {Append(s, x) : s \in {t \in shorter : Len(t) = n - 1}, x \in S}

Min(a, b) == IF a < b THEN a ELSE b

(***************************************************************************)
(* hashlib: a hasher is the digest state; update folds the bytes in, in    *)
(* order; hexdigest is injective in (algorithm, bytes fed).                *)
(***************************************************************************)
SupportedAlgos == {"sha256", "md5"}
Algos == SupportedAlgos \cup {"sha999"}

RECURSIVE HasherUpdate(_, _)
HasherUpdate(acc, chunk) ==
    IF chunk = <<>> THEN acc
    ELSE HasherUpdate(acc * 3 + Head(chunk) + 1, Tail(chunk))

HexDigest(algo, acc) == (IF algo = "sha256" THEN 1000 ELSE 2000) + acc

\* f.read(n): up to n bytes from pos when n > 0, nothing when n = 0,
\* everything that is left when n < 0
FileRead(bytes, pos, n) ==
    IF n = 0 THEN <<>>
    ELSE IF n < 0 THEN SubSeq(bytes, pos + 1, Len(bytes))
    ELSE SubSeq(bytes, pos + 1, Min(pos + n, Len(bytes)))

\* while chunk := f.read(chunk_size): hasher.update(chunk)
\* the mutant: a new hasher for every chunk
RECURSIVE ReadLoopForgets(_, _, _, _)
ReadLoopForgets(bytes, pos, n, acc) ==
    LET chunk == FileRead(bytes, pos, n)
    IN  IF chunk = <<>> THEN acc
        ELSE ReadLoopForgets(bytes, pos + Len(chunk), n, HasherUpdate(0, chunk))

RECURSIVE ReadLoop(_, _, _, _)
ReadLoop(bytes, pos, n, acc) ==
    LET chunk == FileRead(bytes, pos, n)
    IN  IF chunk = <<>> THEN acc
        ELSE ReadLoop(bytes, pos + Len(chunk), n, HasherUpdate(acc, chunk))

(***************************************************************************)
(* compute_file_hash(input_file_path, algo, chunk_size).                   *)
(* file: the outcome of open(path, "rb"): "ok", "notfound" or "denied";    *)
(* bytes: the content when the file opens.                                 *)
(* The result is [exc, value]: exc = "none" when the call returns value.   *)
(***************************************************************************)
Returned(v) == [exc |-> "none", value |-> v]
Raised(e) == [exc |-> e, value |-> None]

\* the mutant: a missing file hashes as an empty one
HashMissingAsEmpty(file, bytes, algo, chunk_size) ==
    IF algo \notin SupportedAlgos THEN Raised("ValueError")
    ELSE IF file = "denied" THEN Raised("PermissionError")
    ELSE IF file = "notfound" THEN Returned(HexDigest(algo, 0))
    ELSE Returned(HexDigest(algo, ReadLoop(bytes, 0, chunk_size, 0)))

compute_file_hash(file, bytes, algo, chunk_size) ==
    \* hashlib.new(algo) runs before the try block: its ValueError propagates
    IF algo \notin SupportedAlgos THEN Raised("ValueError")
    \* only FileNotFoundError and ValueError are caught
    ELSE IF file = "notfound" THEN Returned(None)
    ELSE IF file = "denied" THEN Raised("PermissionError")
    ELSE Returned(HexDigest(algo, ReadLoop(bytes, 0, chunk_size, 0)))

(***************************************************************************)
(* The backing file state.json and its JSON conversion.                    *)
(* disk = [kind, map]:                                                     *)
(*   "absent"  no file            "empty"   zero-length file               *)
(*   "garbage" text that is not JSON (a truncated dump included)           *)
(*   "binary"  bytes that are not valid UTF-8 text                         *)
(*   "object"  a JSON object, map: key -> value                            *)
(*   "list", "string", "null"  valid JSON that is not an object            *)
(* A dict is a function from keys (digests, None, NullKey) to file names.  *)
(***************************************************************************)
EmptyMap == [k \in {} |-> ""]

Disk(kind, map) == [kind |-> kind, map |-> map]

\* json.dump writes every key as a string: a str key as it is, None as "null"
JsonKey(k) == IF k = None THEN NullKey ELSE k

\* json.dump(self.state): pairs are written in insertion order and json.load
\* keeps the last of two equal keys; a None key is always inserted after a
\* "null" key, which can only come from the load at construction
JsonDump(map) ==
    [j \in {JsonKey(k) : k \in DOMAIN map} |->
        IF j = NullKey /\ None \in DOMAIN map THEN map[None] ELSE map[j]]

\* json.load of an object: the keys stay JSON strings
JsonLoad(obj) == [j \in DOMAIN obj |-> obj[j]]

\* self.state[file_hash] = filename
DictPut(map, k, v) == [x \in DOMAIN map \cup {k} |-> IF x = k THEN v ELSE map[x]]

(***************************************************************************)
(* StateManager.  self.state is [type, map]: type "dict", or the type of   *)
(* the non-object JSON value json.load returned, or "unset" before         *)
(* construction.                                                           *)
(***************************************************************************)
Dict(map) == [type |-> "dict", map |-> map]
NonDict(type) == [type |-> type, map |-> EmptyMap]
Unset == NonDict("unset")

Loaded(st) == [exc |-> "none", state |-> st]
LoadRaised(e) == [exc |-> e, state |-> Unset]

\* _load_state.  codec: the text encoding open(file, "r") decodes with (the
\* locale's); ioerror: whether getsize/open/read fails with an OSError
_load_state(d, codec, ioerror) ==
    IF d.kind = "absent" THEN Loaded(Dict(EmptyMap))
    \* except (json.JSONDecodeError, IOError): return {}
    ELSE IF ioerror THEN Loaded(Dict(EmptyMap))
    ELSE IF d.kind = "empty" THEN Loaded(Dict(EmptyMap))
    \* UnicodeDecodeError is a ValueError, not a JSONDecodeError: not caught;
    \* under a single-byte codec the bytes decode to text that is not JSON
    ELSE IF d.kind = "binary"
         THEN IF codec = "utf-8" THEN LoadRaised("UnicodeDecodeError")
              ELSE Loaded(Dict(EmptyMap))
    ELSE IF d.kind = "garbage" THEN Loaded(Dict(EmptyMap))
    ELSE IF d.kind = "object" THEN Loaded(Dict(JsonLoad(d.map)))
    \* valid JSON that is no object is returned as it is
    ELSE Loaded(NonDict(d.kind))

\* is_processed: file_hash in self.state
is_processed(st, h) ==
    IF st.type = "dict" THEN Returned(h \in DOMAIN st.map)
    ELSE IF st.type = "list" THEN Returned(FALSE)
    ELSE IF st.type = "string" /\ h # None THEN Returned(FALSE)
    ELSE Raised("TypeError")

\* add_processed, first statement: self.state[file_hash] = filename
StateAfterAdd(st, h, name) ==
    IF st.type = "dict" THEN Dict(DictPut(st.map, h, name)) ELSE st

\* add_processed, the write.  w is what open(..., "w") and json.dump do:
\*   "ok"         the whole mapping is written
\*   "open_fails" open raises IOError, the file is untouched
\*   "truncated"  open truncated the file, then the write raises IOError
\*   "partial"    part of the text is written, then the write raises IOError
\* a strict prefix of the dump of a non-empty mapping is never valid JSON
\* a mutant: only the new entry is written
DiskAfterNewEntryWrite(old, st, h, name, w) ==
    IF w = "ok" THEN Disk("object", JsonDump(DictPut(EmptyMap, h, name)))
    ELSE IF w = "open_fails" THEN old
    ELSE IF w = "truncated" THEN Disk("empty", EmptyMap)
    ELSE Disk("garbage", EmptyMap)

\* a mutant: the file is written before self.state is updated
DiskAfterStaleWrite(old, st, h, name, w) ==
    IF w = "ok" THEN Disk("object", JsonDump(st.map))
    ELSE IF w = "open_fails" THEN old
    ELSE IF w = "truncated" THEN Disk("empty", EmptyMap)
    ELSE Disk("garbage", EmptyMap)

DiskAfterAdd(old, st, h, name, w) ==
    IF w = "ok" THEN Disk("object", JsonDump(StateAfterAdd(st, h, name).map))
    ELSE IF w = "open_fails" THEN old
    ELSE IF w = "truncated" THEN Disk("empty", EmptyMap)
    ELSE Disk("garbage", EmptyMap)

WriteOutcomes == {"ok", "open_fails", "truncated", "partial"}

\* what add_processed gives its caller: the IOError of a failed write is
\* caught and logged, the call returns None either way; the item assignment
\* on a state that is no dict raises TypeError before any write
add_processed_result(st, w) ==
    IF st.type # "dict" THEN Raised("TypeError") ELSE Returned(None)

(***************************************************************************)
(* The data folder and the external collaborators of ingest.py.            *)
(***************************************************************************)
\* a file name is <<stem, extension>>
Names == {<<"a", "pdf">>, <<"b", "PDF">>, <<"n", "txt">>}

\* str.lower() on the extensions in use
Lower(ext) == IF ext = "PDF" THEN "pdf" ELSE ext

\* f.lower().endswith(".pdf")
\* the mutant: every listed name passes the filter
IsListed(name) == TRUE

IsPdf(name) == Lower(name[2]) = "pdf"

\* contents of the files of the data folder under Spec
RunContents == {<<0>>, <<1>>}

\* the data folders a behaviour starts from: the three files, the two PDFs
\* with equal or with different contents
Folders ==
    {[n \in Names |-> IF n = <<"b", "PDF">> THEN c ELSE <<0>>] : c \in RunContents}

\* chunk_size default of compute_file_hash
default_chunk_size == 4096
\* batch_size of vectorize_and_upload
batch_size == 50

\* what open(path, "rb") does on a listed file: it opens, it is gone (a
\* dangling link, a file removed since the listing), or access is denied
OpenOutcomes == {"ok", "notfound", "denied"}

\* PyPDFLoader(path).load(): one document per page, or an exception.  A
\* page is [file, chunks]: its source and the number of chunks its text
\* splits into (0: a scanned image without text).
PageChunks == {0, batch_size + 1}
Page(name, k) == [file |-> name, chunks |-> k]
LoadResults(name) == {<<>>} \cup {<<Page(name, k)>> : k \in PageChunks}

\* RecursiveCharacterTextSplitter.split_documents: the chunks of the
\* documents in order, each chunk carrying its source
RECURSIVE Repeat(_, _)
Repeat(x, n) == IF n = 0 THEN <<>> ELSE <<x>> \o Repeat(x, n - 1)

RECURSIVE split_documents(_)
split_documents(ds) ==
    IF ds = <<>> THEN <<>>
    ELSE Repeat(Head(ds).file, Head(ds).chunks) \o split_documents(Tail(ds))

\* the orders os.listdir can return the PDF names in
Perms(S) ==
    {q \in [1..Cardinality(S) -> S] : \A i, j \in 1..Cardinality(S) : q[i] = q[j] => i = j}

\* shutil.move(src, dst) on the two directories
Without(dir, name) == [n \in DOMAIN dir \ {name} |-> dir[n]]
With(dir, name, c) == [n \in DOMAIN dir \cup {name} |-> IF n = name THEN c ELSE dir[n]]

(***************************************************************************)
(* ingest_docs, the body of the scan loop (lines 82-99) for one file.      *)
(***************************************************************************)
\* successful_files[pdf_file] = file_hash, reached only when load() returned
\* the mutant: the file is noted before the loader has run
NotedBeforeLoad(sf, name, h, loadOk) == Append(sf, <<name, h>>)

SuccessfulAfterLoad(sf, name, h, loadOk) ==
    IF loadOk THEN Append(sf, <<name, h>>) ELSE sf

\* docs.extend(loader.load())
DocsAfterLoad(ds, pages, loadOk) == IF loadOk THEN ds \o pages ELSE ds

\* the batch splits[i:i+batch_size]
\* the mutant: the slice takes one chunk more
BatchOneMore(sp, i) == SubSeq(sp, i + 1, Min(i + batch_size + 1, Len(sp)))

Batch(sp, i) == SubSeq(sp, i + 1, Min(i + batch_size, Len(sp)))

(***************************************************************************)
(* rag.py and app.py: texts, metadata values and the citation renderers.   *)
(* A text (a Python str) is a sequence of one-character strings.  A value  *)
(* of another type is <<type, text>>, the text being its repr: the int 1   *)
(* is <<"int", <<"1">>>>, the float 1.0 is <<"float", <<"1", ".", "0">>>>, *)
(* the str "1" is <<"str", <<"1">>>>.                                      *)
(***************************************************************************)
\* the default of document.metadata.get(...)
UnknownText == <<"U", "n", "k", "n", "o", "w", "n">>

PyStr(text) == <<"str", text>>
PyInt(text) == <<"int", text>>
PyFloat(text) == <<"float", text>>

\* the slices page_content[:50] (the fallback key) and page_content[:200]
\* (the snippet shown)
key_prefix_len == 50
snippet_len == 200

\* s[:n]
Slice(s, n) == SubSeq(s, 1, Min(n, Len(s)))

\* s.replace(a, b), a and b one character each
Replace(s, a, b) == [i \in 1..Len(s) |-> IF s[i] = a THEN b ELSE s[i]]

\* metadata.get(k, default)
MetaGet(md, k, default) == IF k \in DOMAIN md THEN md[k] ELSE default

\* isinstance(raw_page, (int, float))
IsNumber(v) == v[1] \in {"int", "float"}

\* the digits of a non-negative float's repr before the point
RECURSIVE BeforePoint(_)
BeforePoint(t) ==
    IF t = <<>> \/ Head(t) = "." THEN <<>>
    ELSE <<Head(t)>> \o BeforePoint(Tail(t))

\* int(raw_page) on a non-negative number: truncation
IntOf(v) == IF v[1] = "int" THEN v ELSE PyInt(BeforePoint(v[2]))

\* how an f-string shows a value: a str as it is, an int by its digits
Format(v) == v[2]

\* a retrieved passage (a langchain Document)
Document(md, content) == [metadata |-> md, page_content |-> content]

\* one print / st.markdown / st.caption call
Line(kind, source, page, text) ==
    [kind |-> kind, source |-> source, page |-> page, text |-> text]

\* the key of one passage, rag.py lines 116-125
\* the mutant: the fallback key leaves the content out
SourceKeyNoPrefix(document) ==
    LET file_source == Replace(MetaGet(document.metadata, "source", UnknownText), "\\", "/")
        raw_page == MetaGet(document.metadata, "page", PyStr(UnknownText))
        page_num == IF IsNumber(raw_page) THEN IntOf(raw_page) ELSE raw_page
    IN  <<file_source, page_num>>

\* the mutant: the source is kept as it is spelled
SourceKeyAsSpelled(document) ==
    LET file_source == MetaGet(document.metadata, "source", UnknownText)
        raw_page == MetaGet(document.metadata, "page", PyStr(UnknownText))
        page_num == IF IsNumber(raw_page) THEN IntOf(raw_page) ELSE raw_page
    IN  IF file_source # UnknownText /\ page_num # PyStr(UnknownText)
        THEN <<file_source, page_num>>
        ELSE <<file_source, page_num, Slice(document.page_content, key_prefix_len)>>

SourceKey(document) ==
    LET file_source == Replace(MetaGet(document.metadata, "source", UnknownText), "\\", "/")
        raw_page == MetaGet(document.metadata, "page", PyStr(UnknownText))
        page_num == IF IsNumber(raw_page) THEN IntOf(raw_page) ELSE raw_page
    IN  IF file_source # UnknownText /\ page_num # PyStr(UnknownText)
        THEN <<file_source, page_num>>
        \* Fallback for missing metadata: use content snippet
        ELSE <<file_source, page_num, Slice(document.page_content, key_prefix_len)>>

\* the state of the loop of print_citations: the set unique_sources, the
\* keys in the order they were added to it, and the lines printed
NoCitations == [unique_sources |-> {}, keys |-> <<>>, out |-> <<>>]

\* one pass of the loop, rag.py lines 115-131
\* a mutant: a new key goes in front of the citations emitted so far
CitePrepend(acc, document) ==
    LET source_key == SourceKey(document)
        snippet == Replace(Slice(document.page_content, snippet_len), "\n", " ")
                   \o <<".", ".", ".">>
    IN  IF source_key \notin acc.unique_sources
        THEN [unique_sources |-> acc.unique_sources \cup {source_key},
              keys |-> <<source_key>> \o acc.keys,
              out |-> <<Line("citation", source_key[1], Format(source_key[2]), <<>>),
                        Line("snippet", <<>>, <<>>, snippet)>> \o acc.out]
        ELSE acc

\* a mutant: the key is not looked up in unique_sources
CiteUnconditionally(acc, document) ==
    LET source_key == SourceKey(document)
        snippet == Replace(Slice(document.page_content, snippet_len), "\n", " ")
                   \o <<".", ".", ".">>
    IN  [unique_sources |-> acc.unique_sources \cup {source_key},
         keys |-> Append(acc.keys, source_key),
         out |-> acc.out \o <<Line("citation", source_key[1], Format(source_key[2]), <<>>),
                              Line("snippet", <<>>, <<>>, snippet)>>]

CiteOnce(acc, document) ==
    LET source_key == SourceKey(document)
        snippet == Replace(Slice(document.page_content, snippet_len), "\n", " ")
                   \o <<".", ".", ".">>
    IN  IF source_key \notin acc.unique_sources
        THEN [unique_sources |-> acc.unique_sources \cup {source_key},
              keys |-> Append(acc.keys, source_key),
              out |-> acc.out \o <<Line("citation", source_key[1], Format(source_key[2]), <<>>),
                                   Line("snippet", <<>>, <<>>, snippet)>>]
        ELSE acc

RECURSIVE CiteLoop(_, _)
CiteLoop(acc, srcs) ==
    IF srcs = <<>> THEN acc
    ELSE CiteLoop(CiteOnce(acc, Head(srcs)), Tail(srcs))

\* print_citations(sources), rag.py lines 108-131
\* the mutant: no early return on an empty list
HeaderAlways(srcs) ==
    CiteLoop([NoCitations EXCEPT !.out = <<Line("header", <<>>, <<>>, <<>>)>>], srcs)

print_citations(srcs) ==
    IF srcs = <<>> THEN NoCitations
    ELSE CiteLoop([NoCitations EXCEPT !.out = <<Line("header", <<>>, <<>>, <<>>)>>], srcs)

(***************************************************************************)
(* app.py, the block that shows the sources of an answer (lines 84-109).   *)
(***************************************************************************)
\* str.lower() on the characters in use
LowerChar(c) ==
    IF c = "E" THEN "e" ELSE IF c = "H" THEN "h" ELSE IF c = "Q" THEN "q" ELSE c
LowerText(t) == [i \in 1..Len(t) |-> LowerChar(t[i])]

\* str.strip() leaves nothing: the text is white space only
IsBlank(t) == \A i \in 1..Len(t) : t[i] = " "

\* len(prompt.split()): the maximal runs of characters that are not spaces
WordCount(t) ==
    Cardinality({i \in 1..Len(t) : t[i] # " " /\ (i = 1 \/ t[i - 1] = " ")})

\* word in text: a substring test
Contains(t, word) ==
    \E i \in 0..(Len(t) - Len(word)) : SubSeq(t, i + 1, i + Len(word)) = word

keywords ==
    {<<"t", "h", "a", "n", "k">>, <<"t", "h", "a", "n", "k", "s">>,
     <<"g", "o", "o", "d", "b", "y", "e">>, <<"b", "y", "e">>,
     <<"h", "e", "l", "l", "o">>, <<"h", "i">>}

\* fewer words than this and the prompt counts as conversational
min_substantive_words == 4

is_conversational(prompt) ==
    \/ WordCount(prompt) < min_substantive_words
    \/ \E word \in keywords : Contains(LowerText(prompt), word)

\* the mutant: the page is kept as the metadata gives it
WebKeyPageAsGiven(document) ==
    LET file_source == Replace(MetaGet(document.metadata, "source", UnknownText), "\\", "/")
        page_num == MetaGet(document.metadata, "page", PyStr(UnknownText))
    IN  IF file_source # UnknownText /\ page_num # PyStr(UnknownText)
        THEN <<file_source, page_num>>
        ELSE <<file_source, page_num, Slice(document.page_content, key_prefix_len)>>

WebSourceKey(document) ==
    LET file_source == Replace(MetaGet(document.metadata, "source", UnknownText), "\\", "/")
        raw_page == MetaGet(document.metadata, "page", PyStr(UnknownText))
        page_num == IF IsNumber(raw_page) THEN IntOf(raw_page) ELSE raw_page
    IN  IF file_source # UnknownText /\ page_num # PyStr(UnknownText)
        THEN <<file_source, page_num>>
        ELSE <<file_source, page_num, Slice(document.page_content, key_prefix_len)>>

\* one pass of the loop, app.py lines 92-109: st.markdown, then st.caption
\* with the snippet between double quotes
WebCiteOnce(acc, document) ==
    LET source_key == WebSourceKey(document)
        snippet == Replace(Slice(document.page_content, snippet_len), "\n", " ")
                   \o <<".", ".", ".">>
    IN  IF source_key \notin acc.unique_sources
        THEN [unique_sources |-> acc.unique_sources \cup {source_key},
              keys |-> Append(acc.keys, source_key),
              out |-> acc.out \o <<Line("citation", source_key[1], Format(source_key[2]), <<>>),
                                   Line("caption", <<>>, <<>>, <<"\"">> \o snippet \o <<"\"">>)>>]
        ELSE acc

RECURSIVE WebCiteLoop(_, _)
WebCiteLoop(acc, srcs) ==
    IF srcs = <<>> THEN acc
    ELSE WebCiteLoop(WebCiteOnce(acc, Head(srcs)), Tail(srcs))

\* if sources and not is_conversational: with st.expander(...): the loop
render_sources(srcs, prompt) ==
    IF srcs = <<>> \/ is_conversational(prompt) THEN NoCitations
    ELSE WebCiteLoop([NoCitations EXCEPT !.out = <<Line("expander", <<>>, <<>>, <<>>)>>], srcs)

(***************************************************************************)
(* State.                                                                  *)
(***************************************************************************)
VARIABLES
    folder,            \* whether the data folder exists
    dataDir,           \* the files of the data folder: name -> content
    processedDir,      \* the files of data/processed
    disk,              \* the backing file state.json
    state,             \* self.state of the StateManager of the process
    pc,                \* where the process is
    pdf_files,         \* ingest_docs: the names the scan loop has still to visit
    docs,              \* ingest_docs: docs
    successful_files,  \* ingest_docs: successful_files, in insertion order
    splits,            \* ingest_docs: splits, each chunk as its source name
    todo,              \* ingest_docs: what the archive loop has still to visit
    uploaded,          \* vectorize_and_upload: chunks uploaded so far (i)
    exit,              \* how the last run ended: [code, cause, at]; none while one runs
    runs,              \* runs of main() started
    hist,              \* what the current (or last) run did, per file
    earlier,           \* <<name, content>> archived and recorded by earlier runs
    last,              \* TrackerSpec: the last API call
    result,            \* TrackerSpec: what the last API call gave its caller
    calls,             \* TrackerSpec: API calls made
    chain,             \* chat: the RAG chain of the session, "none" or "built"
    chat_history,      \* rag.py main: chat_history
    messages,          \* app.py: st.session_state.messages
    query,             \* chat: the last text typed
    invoked,           \* chat: the argument of the last chain.invoke
    sources,           \* chat: the retrieved passages of the last response
    stdout,            \* chat: what the last turn or call displayed
    cited,             \* chat: the citation keys in the order they were emitted
    failed             \* chat: turns of the session whose chain call failed

vars == <<folder, dataDir, processedDir, disk, state, pc, pdf_files, docs,
          successful_files, splits, todo, uploaded, exit, runs,
          hist, earlier, last, result, calls,
          chain, chat_history, messages, query, invoked, sources, stdout, cited, failed>>

apiVars == <<last, result, calls>>

chatVars == <<chain, chat_history, messages, query, invoked, sources, stdout, cited, failed>>

NoCall == [op |-> "none", h |-> None, name |-> <<>>, w |-> "none",
           file |-> "none", bytes |-> <<>>, algo |-> "none", chunk_size |-> 0,
           codec |-> "none", ioerror |-> FALSE]

\* hist: per run,
\*   hashed      names whose hash was computed (a digest came back)
\*   hashFailed  names for which compute_file_hash returned None
\*   checked     the values passed to is_processed
\*   loaded      <<name, content>> of the files load() returned for
\*   pages       <<name, number of documents load() returned>>
\*   loadFailed  names for which load() raised
\*   moved       names shutil.move moved to processed/
\*   moveFailed  names for which shutil.move raised
\*   recorded    <<name, hash>> passed to add_processed
\*   volatile    names whose add_processed write failed
\*   uploadFailed  the start indexes of the batches whose upload raised
\*   batches     the documents= arguments of the from_documents calls, in call order
\*   skipped     names skipped as already processed
\*   splitCalls  calls of split_documents
NoHist == [hashed |-> {}, hashFailed |-> {}, checked |-> {}, loaded |-> {},
           pages |-> {}, loadFailed |-> {}, moved |-> {}, moveFailed |-> {}, recorded |-> {},
           volatile |-> {}, uploadFailed |-> {}, batches |-> <<>>,
           skipped |-> {}, splitCalls |-> 0]

\* exit: the exit code ("crash" when killed), the cause, and where the process was
Ended(code, cause, at) == [code |-> code, cause |-> cause, at |-> at]

NoInvoke == [input |-> <<>>, chat_history |-> <<>>, made |-> FALSE]
Invoke(q, h) == [input |-> q, chat_history |-> h, made |-> TRUE]

\* the chat variables when no chat program runs
ChatIdle ==
    /\ chain = "none"
    /\ chat_history = <<>>
    /\ messages = <<>>
    /\ query = <<>>
    /\ invoked = NoInvoke
    /\ sources = <<>>
    /\ stdout = <<>>
    /\ cited = <<>>
    /\ failed = 0

Init ==
    /\ folder \in BOOLEAN
    /\ dataDir \in (IF folder THEN Folders ELSE {EmptyMap})
    /\ processedDir = EmptyMap
    /\ disk = Disk("absent", EmptyMap)
    /\ state = Unset
    /\ pc = "idle"
    /\ pdf_files = <<>>
    /\ docs = <<>>
    /\ successful_files = <<>>
    /\ splits = <<>>
    /\ todo = <<>>
    /\ uploaded = 0
    /\ exit = Ended("none", "none", "idle")
    /\ runs = 0
    /\ hist = NoHist
    /\ earlier = {}
    /\ last = NoCall
    /\ result = Returned(None)
    /\ calls = 0
    /\ ChatIdle

\* the process ends (sys.exit(code), the end of main(), or a crash) and its
\* memory is gone; splits and uploaded stay as the record of what it uploaded
EndRun(code, cause) ==
    /\ pc' = "idle"
    /\ state' = Unset
    /\ pdf_files' = <<>>
    /\ docs' = <<>>
    /\ successful_files' = <<>>
    /\ todo' = <<>>
    /\ exit' = Ended(code, cause, pc)
    /\ earlier' = earlier \cup
           {x \in hist'.loaded : x[1] \in hist'.moved
                                  /\ \E r \in hist'.recorded : r[1] = x[1]}

Running ==
    /\ UNCHANGED <<exit, earlier>>

runVars == <<pdf_files, docs, successful_files, todo>>

(***************************************************************************)
(* The operator, between runs: puts an archived file, unmodified, into the *)
(* data folder again.                                                      *)
(***************************************************************************)
PlaceFile(name) ==
    /\ pc = "idle"
    /\ runs < MaxRuns
    /\ name \in DOMAIN processedDir \ DOMAIN dataDir
    /\ dataDir' = With(dataDir, name, processedDir[name])
    \* the record of the last run is dropped
    /\ hist' = NoHist
    /\ exit' = Ended("none", "none", "idle")
    /\ splits' = <<>>
    /\ uploaded' = 0
    /\ UNCHANGED <<folder, processedDir, disk, state, pc, runVars, runs, earlier, apiVars, chatVars>>

(***************************************************************************)
(* main(): setup_env(), then ingest_docs() down to the scan loop           *)
(* (ingest.py lines 176-179, 39-50, 62-80).                                *)
(***************************************************************************)
StartRun(codec, ioerror) ==
    LET pdfs == {n \in DOMAIN dataDir : IsPdf(n)}
        ld == _load_state(disk, codec, ioerror)
    IN
    /\ pc = "idle"
    /\ runs < MaxRuns
    /\ runs' = runs + 1
    /\ hist' = NoHist
    /\ folder' = TRUE
    /\ splits' = <<>>
    /\ uploaded' = 0
    /\ IF ~folder
       THEN \* os.makedirs(data_folder); sys.exit(0)
            EndRun("0", "no_folder")
       ELSE IF pdfs = {}
       THEN \* Warning: No new PDFs found; sys.exit(0)
            EndRun("0", "no_pdfs")
       ELSE IF ld.exc # "none"
       THEN \* StateManager() raised: main's except Exception, sys.exit(1)
            EndRun("1", "exception")
       ELSE \* pdf_files: the PDF names in the order os.listdir gave them
            /\ pc' = "scan"
            \* the new process has not ended yet
            /\ exit' = Ended("none", "none", "idle")
            /\ UNCHANGED earlier
            /\ pdf_files' \in Perms(pdfs)
            /\ state' = ld.state
            /\ UNCHANGED <<docs, successful_files, todo>>
    /\ UNCHANGED <<dataDir, processedDir, disk, apiVars, chatVars>>

(***************************************************************************)
(* ingest_docs, one pass of the scan loop (lines 82-99).                   *)
(* file: what open() does on the file; loadOk, pages: what load() does.    *)
(***************************************************************************)
ScanFile(file, loadOk) ==
    /\ pc = "scan"
    /\ pdf_files # <<>>
    /\ LET name == Head(pdf_files)
           r == compute_file_hash(file, dataDir[name], "sha256", default_chunk_size)
           h == r.value
           known == is_processed(state, h)
           hashNote == IF h = None
                       THEN [hist EXCEPT !.hashFailed = @ \cup {name}]
                       ELSE [hist EXCEPT !.hashed = @ \cup {name}]
           checkNote == [hashNote EXCEPT !.checked = @ \cup {h}]
       IN
       \E pages \in LoadResults(name) :
          IF r.exc # "none" \/ known.exc # "none"
          THEN \* not caught in ingest_docs: main's except Exception, sys.exit(1)
               /\ hist' = IF r.exc # "none" THEN hist ELSE checkNote
               /\ EndRun("1", IF r.exc # "none" THEN "hash_raised" ELSE "exception")
               /\ UNCHANGED <<splits, uploaded>>
          ELSE IF known.value
          THEN \* Skipping: Already processed.
               /\ hist' = [checkNote EXCEPT !.skipped = @ \cup {name}]
               /\ pdf_files' = Tail(pdf_files)
               /\ Running
               /\ UNCHANGED <<state, pc, docs, successful_files, splits, todo, uploaded>>
          ELSE /\ hist' = IF loadOk
                          THEN [checkNote EXCEPT !.loaded = @ \cup {<<name, dataDir[name]>>},
                                                 !.pages = @ \cup {<<name, Len(pages)>>}]
                          ELSE [checkNote EXCEPT !.loadFailed = @ \cup {name}]
               /\ docs' = DocsAfterLoad(docs, pages, loadOk)
               /\ successful_files' = SuccessfulAfterLoad(successful_files, name, h, loadOk)
               /\ pdf_files' = Tail(pdf_files)
               /\ Running
               /\ UNCHANGED <<state, pc, splits, todo, uploaded>>
    /\ UNCHANGED <<folder, dataDir, processedDir, disk, runs, apiVars, chatVars>>

(***************************************************************************)
(* ingest_docs after the scan: the two exits and the split (lines 101-121).*)
(***************************************************************************)
\* the mutant: the documents read so far are split while files are still to
\* be visited
SplitPerFile ==
    /\ pc = "scan"
    /\ docs # <<>>
    /\ hist' = [hist EXCEPT !.splitCalls = @ + 1]
    /\ IF split_documents(docs) = <<>>
       THEN /\ EndRun("1", "no_text")
            /\ UNCHANGED <<splits, uploaded>>
       ELSE /\ pc' = "move"
            /\ Running
            /\ splits' = split_documents(docs)
            /\ todo' = successful_files
            /\ UNCHANGED <<state, pdf_files, docs, successful_files, uploaded>>
    /\ UNCHANGED <<folder, dataDir, processedDir, disk, runs, apiVars, chatVars>>

SplitDocs ==
    /\ pc = "scan"
    /\ pdf_files = <<>>
    /\ hist' = IF docs = <<>> THEN hist ELSE [hist EXCEPT !.splitCalls = @ + 1]
    /\ IF docs = <<>>
       THEN \* No new documents to process; sys.exit(0)
            /\ EndRun("0", "no_docs")
            /\ UNCHANGED <<splits, uploaded>>
       ELSE IF split_documents(docs) = <<>>
       THEN \* Warning: No Text found in PDF; sys.exit(1)
            /\ EndRun("1", "no_text")
            /\ UNCHANGED <<splits, uploaded>>
       ELSE /\ pc' = "move"
            /\ Running
            /\ splits' = split_documents(docs)
            /\ todo' = successful_files
            /\ UNCHANGED <<state, pdf_files, docs, successful_files, uploaded>>
    /\ UNCHANGED <<folder, dataDir, processedDir, disk, runs, apiVars, chatVars>>

(***************************************************************************)
(* ingest_docs, the archive loop (lines 122-134), in two steps:            *)
(* shutil.move, then manager.add_processed.                                *)
(***************************************************************************)
\* the mutant: add_processed is reached whether or not the move succeeded
ArchiveMoveThenRecordAnyway(moveOk) ==
    /\ pc = "move"
    /\ todo # <<>>
    /\ LET name == Head(todo)[1]
       IN  IF moveOk
           THEN /\ dataDir' = Without(dataDir, name)
                /\ processedDir' = With(processedDir, name, dataDir[name])
                /\ hist' = [hist EXCEPT !.moved = @ \cup {name}]
           ELSE /\ hist' = [hist EXCEPT !.moveFailed = @ \cup {name}]
                /\ UNCHANGED <<dataDir, processedDir>>
    /\ pc' = "record"
    /\ UNCHANGED todo
    /\ Running
    /\ UNCHANGED <<folder, disk, state, pdf_files, docs, successful_files,
                   splits, uploaded, runs, apiVars, chatVars>>

ArchiveMove(moveOk) ==
    /\ pc = "move"
    /\ todo # <<>>
    /\ LET name == Head(todo)[1]
       IN  IF moveOk
           THEN /\ dataDir' = Without(dataDir, name)
                /\ processedDir' = With(processedDir, name, dataDir[name])
                /\ hist' = [hist EXCEPT !.moved = @ \cup {name}]
                /\ pc' = "record"
                /\ UNCHANGED todo
           ELSE \* Failed to move; continue
                /\ hist' = [hist EXCEPT !.moveFailed = @ \cup {name}]
                /\ todo' = Tail(todo)
                /\ UNCHANGED <<dataDir, processedDir, pc>>
    /\ Running
    /\ UNCHANGED <<folder, disk, state, pdf_files, docs, successful_files,
                   splits, uploaded, runs, apiVars, chatVars>>

ArchiveRecord(w) ==
    /\ pc = "record"
    /\ w \in WriteOutcomes
    /\ LET name == Head(todo)[1]
           h == Head(todo)[2]
       IN  /\ state' = StateAfterAdd(state, h, name)
           /\ disk' = IF state.type = "dict"
                      THEN DiskAfterAdd(disk, state, h, name, w) ELSE disk
           /\ hist' = [hist EXCEPT !.recorded = @ \cup {<<name, h>>},
                                   !.volatile = IF w = "ok" THEN @ ELSE @ \cup {name}]
    \* whether add_processed returns or raises, the loop goes on
    /\ pc' = "move"
    /\ todo' = Tail(todo)
    /\ Running
    /\ UNCHANGED <<folder, dataDir, processedDir, pdf_files, docs,
                   successful_files, splits, uploaded, runs, apiVars, chatVars>>

(***************************************************************************)
(* ingest_docs returns splits; main calls vectorize_and_upload             *)
(* (lines 136, 180-181, 145-158).  indexSet: whether the environment holds *)
(* PINECONE_INDEX_NAME when line 146 reads it.                             *)
(***************************************************************************)
BeginUpload(indexSet) ==
    /\ pc = "move"
    /\ todo = <<>>
    /\ hist' = hist
    /\ IF ~indexSet
       THEN \* Environment variable missing; sys.exit(1)
            EndRun("1", "config")
       ELSE /\ pc' = "upload"
            /\ Running
            /\ UNCHANGED <<state, runVars>>
    /\ uploaded' = 0
    /\ UNCHANGED <<folder, dataDir, processedDir, disk, splits, runs,
                   apiVars, chatVars>>

\* one pass of the batch loop (lines 160-172)
\* the mutant: after a batch that failed the loop goes on with the next one
UploadBatchGoesOn(uploadOk) ==
    /\ pc = "upload"
    /\ uploaded < Len(splits)
    /\ hist' = [hist EXCEPT !.batches = Append(@, Batch(splits, uploaded)),
                            !.uploadFailed = IF uploadOk THEN @ ELSE @ \cup {uploaded}]
    /\ uploaded' = uploaded + Len(Batch(splits, uploaded))
    /\ Running
    /\ UNCHANGED <<pc, state, runVars>>
    /\ UNCHANGED <<folder, dataDir, processedDir, disk, splits, runs,
                   apiVars, chatVars>>

UploadBatch(uploadOk) ==
    /\ pc = "upload"
    /\ uploaded < Len(splits)
    /\ hist' = [hist EXCEPT !.batches = Append(@, Batch(splits, uploaded)),
                            !.uploadFailed = IF uploadOk THEN @ ELSE @ \cup {uploaded}]
    /\ IF uploadOk
       THEN \* range(0, total_chunks, batch_size): the next i
            /\ uploaded' = Min(uploaded + batch_size, Len(splits))
            /\ Running
            /\ UNCHANGED <<pc, state, runVars>>
       ELSE \* Error on batch; sys.exit(1)
            /\ EndRun("1", "upload")
            /\ UNCHANGED uploaded
    /\ UNCHANGED <<folder, dataDir, processedDir, disk, splits, runs,
                   apiVars, chatVars>>

\* Upload complete: main returns
FinishUpload ==
    /\ pc = "upload"
    /\ uploaded = Len(splits)
    /\ hist' = hist
    /\ EndRun("0", "complete")
    /\ UNCHANGED <<folder, dataDir, processedDir, disk, splits, uploaded, runs, apiVars, chatVars>>

(***************************************************************************)
(* The process is killed.  Inside add_processed the file may have been     *)
(* truncated or partly written.                                            *)
(***************************************************************************)
Crash(torn) ==
    /\ pc \in {"scan", "move", "record", "upload"}
    /\ torn \in {"no", "truncated", "partial"}
    /\ torn # "no" => pc = "record" /\ state.type = "dict"
    /\ disk' = IF torn = "no" THEN disk
               ELSE DiskAfterAdd(disk, state, Head(todo)[2], Head(todo)[1], torn)
    /\ hist' = hist
    /\ EndRun("crash", "crash")
    /\ UNCHANGED <<folder, dataDir, processedDir, splits, uploaded, runs, apiVars, chatVars>>

Next ==
    \/ \E name \in Names : PlaceFile(name)
    \/ \E codec \in {"utf-8", "latin-1"}, ioerror \in BOOLEAN : StartRun(codec, ioerror)
    \/ \E file \in OpenOutcomes, loadOk \in BOOLEAN : ScanFile(file, loadOk)
    \/ SplitDocs
    \/ \E moveOk \in BOOLEAN : ArchiveMove(moveOk)
    \/ \E w \in WriteOutcomes : ArchiveRecord(w)
    \/ \E indexSet \in BOOLEAN : BeginUpload(indexSet)
    \/ \E uploadOk \in BOOLEAN : UploadBatch(uploadOk)
    \/ FinishUpload
    \/ \E torn \in {"no", "truncated", "partial"} : Crash(torn)

Spec == Init /\ [][Next]_vars

(***************************************************************************)
(* UploadSpec: vectorize_and_upload called on lists of chunks of every     *)
(* length up to MaxChunks (ingest.py lines 138-174).                       *)
(***************************************************************************)
\* the k-th chunk of a list: chunks of one list are pairwise different
Chunk(k) == <<k, "chunk">>
ChunkList(n) == [k \in 1..n |-> Chunk(k)]

UploadInit ==
    /\ folder = TRUE
    /\ dataDir = EmptyMap
    /\ processedDir = EmptyMap
    /\ disk = Disk("absent", EmptyMap)
    /\ state = Dict(EmptyMap)
    /\ pc = "move"
    /\ pdf_files = <<>>
    /\ docs = <<>>
    /\ successful_files = <<>>
    /\ splits \in {ChunkList(n) : n \in 0..MaxChunks}
    /\ todo = <<>>
    /\ uploaded = 0
    /\ exit = Ended("none", "none", "idle")
    /\ runs = 1
    /\ hist = NoHist
    /\ earlier = {}
    /\ last = NoCall
    /\ result = Returned(None)
    /\ calls = 0
    /\ ChatIdle

UploadNext ==
    \/ \E indexSet \in BOOLEAN : BeginUpload(indexSet)
    \/ \E uploadOk \in BOOLEAN : UploadBatch(uploadOk)
    \/ FinishUpload

UploadSpec == UploadInit /\ [][UploadNext]_vars

(***************************************************************************)
(* TrackerSpec: a caller constructs StateManagers on the backing file and  *)
(* calls is_processed and add_processed (state_manager.py lines 50-86).    *)
(***************************************************************************)
\* the digests compute_file_hash gives for the contents in use
Digests == {HexDigest("sha256", ReadLoop(c, 0, default_chunk_size, 0)) : c \in RunContents}

PdfNames == {n \in Names : IsPdf(n)}

\* the conditions the backing file is found in
TrackerDisks ==
    {Disk(k, EmptyMap) : k \in {"absent", "empty", "garbage", "binary", "list", "string", "null"}}
    \cup {Disk("object", EmptyMap)}
    \cup {Disk("object", [j \in {d} |-> <<"a", "pdf">>]) : d \in Digests}

TrackerInit ==
    /\ folder = TRUE
    /\ dataDir \in Folders
    /\ processedDir = EmptyMap
    /\ disk \in TrackerDisks
    /\ state = Unset
    /\ pc = "api"
    /\ pdf_files = <<>>
    /\ docs = <<>>
    /\ successful_files = <<>>
    /\ splits = <<>>
    /\ todo = <<>>
    /\ uploaded = 0
    /\ exit = Ended("none", "none", "idle")
    /\ runs = 0
    /\ hist = NoHist
    /\ earlier = {}
    /\ last = NoCall
    /\ result = Returned(None)
    /\ calls = 0
    /\ ChatIdle

\* hist.checked and hist.recorded note the calls made on the current tracker
ingestFrame == <<folder, dataDir, processedDir, pdf_files, docs,
                 successful_files, splits, todo, uploaded, runs, earlier>>
trackerFrame == <<ingestFrame, pc, exit, chatVars>>
ingestVars == <<trackerFrame, hist>>

\* StateManager(): __init__ assigns self.state = self._load_state()
Construct(codec, ioerror) ==
    LET ld == _load_state(disk, codec, ioerror)
    IN
    /\ pc = "api"
    /\ calls < MaxCalls
    /\ calls' = calls + 1
    /\ last' = [NoCall EXCEPT !.op = "construct", !.codec = codec, !.ioerror = ioerror]
    /\ state' = ld.state
    /\ result' = [exc |-> ld.exc, value |-> None]
    /\ hist' = NoHist
    /\ UNCHANGED <<disk, trackerFrame>>

IsProcessed(h) ==
    /\ pc = "api"
    /\ state.type # "unset"
    /\ calls < MaxCalls
    /\ calls' = calls + 1
    /\ last' = [NoCall EXCEPT !.op = "is_processed", !.h = h]
    /\ result' = is_processed(state, h)
    /\ hist' = [hist EXCEPT !.checked = @ \cup {h}]
    /\ UNCHANGED <<disk, state, trackerFrame>>

AddProcessed(h, name, w) ==
    /\ pc = "api"
    /\ state.type # "unset"
    /\ calls < MaxCalls
    /\ calls' = calls + 1
    /\ last' = [NoCall EXCEPT !.op = "add_processed", !.h = h, !.name = name, !.w = w]
    /\ state' = StateAfterAdd(state, h, name)
    /\ disk' = IF state.type = "dict" THEN DiskAfterAdd(disk, state, h, name, w) ELSE disk
    /\ result' = add_processed_result(state, w)
    /\ hist' = [hist EXCEPT !.recorded = @ \cup {<<name, h>>}]
    /\ UNCHANGED trackerFrame

TrackerNext ==
    \/ \E codec \in {"utf-8", "latin-1"}, ioerror \in BOOLEAN : Construct(codec, ioerror)
    \/ \E h \in Digests \cup {None} : IsProcessed(h)
    \/ \E h \in Digests, name \in PdfNames, w \in WriteOutcomes : AddProcessed(h, name, w)

TrackerSpec == TrackerInit /\ [][TrackerNext]_vars

(***************************************************************************)
(* HashSpec: compute_file_hash called on the paths of a folder             *)
(* (state_manager.py lines 88-102).                                        *)
(***************************************************************************)
HashContents == SeqsUpTo(Bytes, MaxFileLen)
ChunkSizes == (-1 .. MaxChunkSize) \cup {default_chunk_size}

\* the folders of HashSpec: the path a.pdf holds any content, b.PDF is
\* absent or a copy of a.pdf
HashFolders ==
    {[n \in {<<"a", "pdf">>} |-> c] : c \in HashContents}
    \cup {[n \in PdfNames |-> c] : c \in HashContents}

HashInit ==
    /\ folder = TRUE
    /\ dataDir \in HashFolders
    /\ processedDir = EmptyMap
    /\ disk \in {Disk("absent", EmptyMap), Disk("object", EmptyMap)}
    /\ state \in {Unset, Dict(EmptyMap)}
    /\ pc = "hash"
    /\ pdf_files = <<>>
    /\ docs = <<>>
    /\ successful_files = <<>>
    /\ splits = <<>>
    /\ todo = <<>>
    /\ uploaded = 0
    /\ exit = Ended("none", "none", "idle")
    /\ runs = 0
    /\ hist = NoHist
    /\ earlier = {}
    /\ last = NoCall
    /\ result = Returned(None)
    /\ calls = 0
    /\ ChatIdle

\* denied: whether the file, when it exists, refuses to open
ComputeFileHash(path, algo, chunk_size, denied) ==
    LET file == IF path \notin DOMAIN dataDir THEN "notfound"
                ELSE IF denied THEN "denied" ELSE "ok"
        bytes == IF path \in DOMAIN dataDir THEN dataDir[path] ELSE <<>>
    IN
    /\ pc = "hash"
    /\ calls < MaxCalls
    /\ calls' = calls + 1
    /\ last' = [NoCall EXCEPT !.op = "compute_file_hash", !.file = file, !.bytes = bytes,
                              !.algo = algo, !.chunk_size = chunk_size]
    /\ result' = compute_file_hash(file, bytes, algo, chunk_size)
    /\ UNCHANGED <<disk, state, ingestVars>>

HashNext ==
    \E path \in PdfNames, algo \in Algos, chunk_size \in ChunkSizes, denied \in BOOLEAN :
        ComputeFileHash(path, algo, chunk_size, denied)

HashSpec == HashInit /\ [][HashNext]_vars

(***************************************************************************)
(* CiteSpec: the two citation renderers called on lists of retrieved       *)
(* passages (rag.py lines 108-131, app.py lines 84-109).                   *)
(***************************************************************************)
\* page contents: two that agree on their first key_prefix_len characters
\* and differ after them (one longer than snippet_len), and a short one
\* with a line break
LongContent == Repeat("x", key_prefix_len) \o <<"1">>
LongerContent == Repeat("x", snippet_len) \o <<"2">>
ShortContent == <<"y", "\n", "z">>

WinPath == <<"d", "\\", "f">>
PosixPath == <<"d", "/", "f">>

\* the passages a retrieval returns
Documents ==
    {Document([source |-> WinPath, page |-> PyInt(<<"1">>)], LongContent),
     Document([source |-> PosixPath, page |-> PyFloat(<<"1", ".", "0">>)], LongerContent),
     Document([source |-> PosixPath, page |-> PyInt(<<"1">>)], ShortContent),
     Document([source |-> PosixPath, page |-> PyInt(<<"2">>)], LongContent),
     Document([source |-> PosixPath, page |-> PyStr(<<"1">>)], ShortContent),
     Document([source |-> PosixPath], ShortContent),
     Document(EmptyMap, LongContent),
     Document(EmptyMap, LongerContent),
     Document(EmptyMap, ShortContent)}

\* the prompts typed: a question, one that holds a keyword inside a word
\* ("this"), a greeting, the exit word, white space
AskPrompt == <<"w", "h", "a", "t", " ", "i", "s", " ", "t", "h", "e", " ", "p", "l", "a", "n">>
ThisPrompt == <<"w", "h", "y", " ", "i", "s", " ", "t", "h", "i", "s", " ", "s", "o">>
HiPrompt == <<"H", "i">>
ExitPrompt == <<"E", "x", "i", "t">>
BlankPrompt == <<" ">>

\* query.lower() in ["exit", "quit", "q"]
ExitWords == {<<"e", "x", "i", "t">>, <<"q", "u", "i", "t">>, <<"q">>}


CiteInit ==
    /\ folder = TRUE
    /\ dataDir = EmptyMap
    /\ processedDir = EmptyMap
    /\ disk = Disk("absent", EmptyMap)
    /\ state = Unset
    /\ pc = "cite"
    /\ pdf_files = <<>>
    /\ docs = <<>>
    /\ successful_files = <<>>
    /\ splits = <<>>
    /\ todo = <<>>
    /\ uploaded = 0
    /\ exit = Ended("none", "none", "idle")
    /\ runs = 0
    /\ hist = NoHist
    /\ earlier = {}
    /\ last = NoCall
    /\ result = Returned(None)
    /\ calls = 0
    /\ chain = "none"
    /\ chat_history = <<>>
    /\ messages = <<>>
    /\ query = <<>>
    /\ invoked = NoInvoke
    /\ sources \in SeqsUpTo(Documents, MaxSources)
    /\ stdout = <<>>
    /\ cited = <<>>
    /\ failed = 0

citeFrame == <<ingestFrame, pc, exit, disk, state, hist, chain, chat_history, messages, invoked, sources,
               calls, result, failed>>

\* print_citations(sources)
PrintCitations ==
    /\ pc = "cite"
    /\ last' = [NoCall EXCEPT !.op = "print_citations"]
    /\ query' = <<>>
    /\ stdout' = print_citations(sources).out
    /\ cited' = print_citations(sources).keys
    /\ UNCHANGED citeFrame

\* the sources block of setup_chat, after the answer to prompt
RenderSources(prompt) ==
    /\ pc = "cite"
    /\ last' = [NoCall EXCEPT !.op = "render_sources"]
    /\ query' = prompt
    /\ stdout' = render_sources(sources, prompt).out
    /\ cited' = render_sources(sources, prompt).keys
    /\ UNCHANGED citeFrame

CiteNext ==
    \/ PrintCitations
    \/ \E prompt \in {AskPrompt, ThisPrompt, HiPrompt} : RenderSources(prompt)

CiteSpec == CiteInit /\ [][CiteNext]_vars

(***************************************************************************)
(* ChatSpec: a chat session, either rag.py's main() (the CLI loop, lines   *)
(* 133-171) or app.py's setup_chat() (one script run per interaction,      *)
(* lines 26-113), over a chain whose invoke may raise.                     *)
(***************************************************************************)
\* the environment: whether GOOGLE_API_KEY, PINECONE_API_KEY and
\* PINECONE_INDEX_NAME are set
Envs == [google : BOOLEAN, pinecone : BOOLEAN, index : BOOLEAN]
FullEnv == [google |-> TRUE, pinecone |-> TRUE, index |-> TRUE]

\* what chain.invoke does: it raises, or returns an answer and a context
Response(answer, context) == [raises |-> FALSE, answer |-> answer, context |-> context]
Failure == [raises |-> TRUE, answer |-> <<>>, context |-> <<>>]

Answers == {<<"a">>, <<"b">>}
Contexts ==
    {<<>>,
     <<Document([source |-> WinPath, page |-> PyInt(<<"1">>)], ShortContent),
       Document([source |-> PosixPath, page |-> PyFloat(<<"1", ".", "0">>)], ShortContent)>>}
ChainOutcomes == {Failure} \cup {Response(a, c) : a \in Answers, c \in Contexts}

Prompts == {AskPrompt, HiPrompt, ExitPrompt, BlankPrompt}

Say(kind, text) == Line(kind, <<>>, <<>>, text)

\* st.session_state.messages as the chain's chat_history (app.py lines 73-76)
AsHistory(msgs) ==
    [i \in 1..Len(msgs) |->
        <<IF msgs[i].role = "user" THEN "human" ELSE "ai", msgs[i].content>>]

Message(role, content) == [role |-> role, content |-> content]

\* the redraw of the earlier messages (app.py lines 49-51)
Redraw(msgs) == [i \in 1..Len(msgs) |-> Line("message", <<>>, <<>>, msgs[i].content)]

ChatInit ==
    /\ folder = TRUE
    /\ dataDir = EmptyMap
    /\ processedDir = EmptyMap
    /\ disk = Disk("absent", EmptyMap)
    /\ state = Unset
    /\ pc \in {"cli_start", "web"}
    /\ pdf_files = <<>>
    /\ docs = <<>>
    /\ successful_files = <<>>
    /\ splits = <<>>
    /\ todo = <<>>
    /\ uploaded = 0
    /\ exit = Ended("none", "none", "idle")
    /\ runs = 0
    /\ hist = NoHist
    /\ earlier = {}
    /\ last = NoCall
    /\ result = Returned(None)
    /\ calls = 0
    /\ ChatIdle

chatFrame == <<ingestFrame, disk, state, hist>>

\* sys.exit(code), or an exception nothing catches, in the CLI
ChatExit(code, cause) ==
    /\ pc' = "exited"
    /\ exit' = Ended(code, cause, pc)

\* rag.py main(), lines 134-139: setup_env(), get_rag_chain().
\* built: whether the components of the chain can be constructed
CliStart(env, built) ==
    /\ pc = "cli_start"
    /\ last' = [NoCall EXCEPT !.op = "start"]
    /\ IF ~env.google \/ ~env.pinecone
       THEN \* Error: Missing API keys in .env; sys.exit(1)
            /\ ChatExit("1", "config")
            /\ stdout' = <<Say("error", <<>>)>>
            /\ UNCHANGED <<chain, result>>
       ELSE IF ~env.index
       THEN \* Environment variable missing; sys.exit(1)
            /\ ChatExit("1", "config")
            /\ stdout' = <<Say("error", <<>>)>>
            /\ UNCHANGED <<chain, result>>
       ELSE IF ~built
       THEN \* nothing in main() catches it: traceback, status 1
            /\ ChatExit("1", "exception")
            /\ stdout' = <<>>
            /\ result' = Raised("Exception")
            /\ UNCHANGED chain
       ELSE /\ chain' = "built"
            /\ pc' = "cli_prompt"
            /\ stdout' = <<Say("ready", <<>>)>>
            /\ UNCHANGED <<exit, result>>
    /\ UNCHANGED <<chatFrame, calls, chat_history, messages, query, invoked,
                   sources, cited, failed>>

\* the mutant: no handler around the chain call
CliTurnUncaught(q, r) ==
    /\ pc = "cli_prompt"
    /\ calls < MaxCalls
    /\ calls' = calls + 1
    /\ query' = q
    /\ IF LowerText(q) \in ExitWords
       THEN /\ ChatExit("0", "quit")
            /\ last' = [NoCall EXCEPT !.op = "quit"]
            /\ stdout' = <<Say("ending", <<>>)>>
            /\ UNCHANGED <<chat_history, invoked, sources, cited, result, failed>>
       ELSE IF IsBlank(q)
       THEN /\ last' = [NoCall EXCEPT !.op = "blank"]
            /\ stdout' = <<>>
            /\ UNCHANGED <<pc, exit, chat_history, invoked, sources, cited, result, failed>>
       ELSE /\ last' = [NoCall EXCEPT !.op = "invoke"]
            /\ invoked' = Invoke(q, chat_history)
            /\ IF r.raises
               THEN /\ ChatExit("1", "exception")
                    /\ result' = Raised("Exception")
                    /\ failed' = failed + 1
                    /\ stdout' = <<Say("thinking", <<>>)>>
                    /\ UNCHANGED <<chat_history, sources, cited>>
               ELSE /\ result' = Returned(None)
                    /\ chat_history' = chat_history \o <<<<"human", q>>, <<"ai", r.answer>>>>
                    /\ sources' = r.context
                    /\ stdout' = <<Say("thinking", <<>>), Say("answer", r.answer)>>
                                 \o print_citations(r.context).out
                    /\ cited' = print_citations(r.context).keys
                    /\ UNCHANGED <<pc, exit, failed>>
    /\ UNCHANGED <<chatFrame, chain, messages>>

\* rag.py main(), one pass of the while loop (lines 141-171)
CliTurn(q, r) ==
    /\ pc = "cli_prompt"
    /\ calls < MaxCalls
    /\ calls' = calls + 1
    /\ query' = q
    /\ IF LowerText(q) \in ExitWords
       THEN \* Ending session; sys.exit(0)
            /\ ChatExit("0", "quit")
            /\ last' = [NoCall EXCEPT !.op = "quit"]
            /\ stdout' = <<Say("ending", <<>>)>>
            /\ UNCHANGED <<chat_history, invoked, sources, cited, result, failed>>
       ELSE IF IsBlank(q)
       THEN \* continue
            /\ last' = [NoCall EXCEPT !.op = "blank"]
            /\ stdout' = <<>>
            /\ UNCHANGED <<pc, exit, chat_history, invoked, sources, cited, result, failed>>
       ELSE /\ last' = [NoCall EXCEPT !.op = "invoke"]
            /\ invoked' = Invoke(q, chat_history)
            /\ IF r.raises
               THEN \* except Exception: print(f"Error: {e}")
                    /\ result' = Raised("Exception")
                    /\ failed' = failed + 1
                    /\ stdout' = <<Say("thinking", <<>>), Say("error", <<>>)>>
                    /\ UNCHANGED <<chat_history, sources, cited>>
               ELSE /\ result' = Returned(None)
                    /\ failed' = failed
                    /\ chat_history' = chat_history \o <<<<"human", q>>, <<"ai", r.answer>>>>
                    /\ sources' = r.context
                    /\ stdout' = <<Say("thinking", <<>>), Say("answer", r.answer)>>
                                 \o print_citations(r.context).out
                    /\ cited' = print_citations(r.context).keys
            /\ UNCHANGED <<pc, exit>>
    /\ UNCHANGED <<chatFrame, chain, messages>>

\* app.py setup_chat(), one run of the script (lines 26-113).
\* p: what st.chat_input returns, <<>> when nothing was typed
WebRun(p, env, built, r) ==
    LET missing == ~env.google \/ ~env.pinecone \/ ~env.index
        loaded == IF chain = "built" \/ (~missing /\ built) THEN "built" ELSE "none"
        banner == IF chain = "built" THEN <<>>
                  ELSE IF built THEN <<Say("success", <<>>)>> ELSE <<Say("load_error", <<>>)>>
        shown == banner \o Redraw(messages)
        asked == Append(messages, Message("user", p))
        rendering == render_sources(r.context, p)
    IN
    /\ pc = "web"
    /\ calls < MaxCalls
    \* the environment and the build matter only while the session has no chain
    /\ chain = "built" => (env = FullEnv /\ built)
    /\ calls' = calls + 1
    /\ query' = p
    /\ IF chain = "none" /\ missing
       THEN \* setup_env() or get_rag_chain() calls sys.exit(1): SystemExit is
            \* no Exception, the handler of line 42 lets it pass and the
            \* script run ends there
            /\ last' = [NoCall EXCEPT !.op = "start"]
            /\ exit' = Ended("1", "config", pc)
            /\ stdout' = <<>>
            /\ UNCHANGED <<chain, messages, invoked, sources, cited, result, failed>>
       ELSE /\ chain' = loaded
            /\ IF p = <<>> \/ IsBlank(p)
               THEN /\ last' = [NoCall EXCEPT !.op = "blank"]
                    /\ stdout' = shown
                    /\ UNCHANGED <<exit, messages, invoked, sources, cited, result, failed>>
               ELSE IF LowerText(p) \in ExitWords
               THEN \* Session Reset; st.stop()
                    /\ last' = [NoCall EXCEPT !.op = "quit"]
                    /\ messages' = <<>>
                    /\ stdout' = shown \o <<Say("warning", <<>>)>>
                    /\ exit' = Ended("0", "quit", pc)
                    /\ UNCHANGED <<invoked, sources, cited, result, failed>>
               ELSE /\ last' = [NoCall EXCEPT !.op = "invoke"]
                    /\ UNCHANGED exit
                    /\ IF loaded = "none"
                       THEN \* st.session_state.chain: AttributeError, caught
                            /\ result' = Raised("AttributeError")
                            /\ failed' = failed + 1
                            /\ messages' = asked
                            /\ stdout' = shown \o <<Say("message", p), Say("error", <<>>)>>
                            /\ UNCHANGED <<invoked, sources, cited>>
                       ELSE IF r.raises
                       THEN \* except Exception: message_placeholder.error
                            /\ result' = Raised("Exception")
                            /\ failed' = failed + 1
                            /\ invoked' = Invoke(p, AsHistory(messages))
                            /\ messages' = asked
                            /\ stdout' = shown \o <<Say("message", p), Say("error", <<>>)>>
                            /\ UNCHANGED <<sources, cited>>
                       ELSE /\ result' = Returned(None)
                            /\ failed' = failed
                            /\ invoked' = Invoke(p, AsHistory(messages))
                            /\ sources' = r.context
                            /\ messages' = Append(asked, Message("assistant", r.answer))
                            /\ stdout' = shown \o <<Say("message", p), Say("answer", r.answer)>>
                                         \o rendering.out
                            /\ cited' = rendering.keys
    /\ UNCHANGED <<chatFrame, pc, chat_history>>

ChatNext ==
    \/ \E env \in Envs, built \in BOOLEAN : CliStart(env, built)
    \/ \E q \in Prompts, r \in ChainOutcomes : CliTurn(q, r)
    \/ \E p \in Prompts \cup {<<>>}, env \in Envs, built \in BOOLEAN, r \in ChainOutcomes :
           WebRun(p, env, built, r)

ChatSpec == ChatInit /\ [][ChatNext]_vars

(***************************************************************************)
(* Properties.                                                             *)
(***************************************************************************)
\* where the current run is, or where the last one ended
Stage == IF pc = "idle" THEN exit.at ELSE pc

\* the upload step has reported success for every chunk of the file
ChunksUploaded(name) ==
    /\ Stage = "upload"
    /\ \A i \in 1..Len(splits) : splits[i] = name => i <= uploaded

HasChunks(name) == \E i \in 1..Len(splits) : splits[i] = name

LoadedNames == {x[1] : x \in hist.loaded}
RecordedNames == {r[1] : r \in hist.recorded}

\* the keys of the mapping the backing file holds
DurableKeys == IF disk.kind = "object" THEN DOMAIN disk.map ELSE {}

DigestOf(c) == HexDigest("sha256", ReadLoop(c, 0, default_chunk_size, 0))

\* the archive loop of ingest_docs is over: return splits is next
AtReturn == pc = "move" /\ todo = <<>>

\* C1: a file is moved to processed/ and passed to add_processed only after
\* the upload of all its chunks has reported success; a file whose upload
\* has not succeeded is neither archived nor recorded.
C1_ArchiveOnlyAfterUpload ==
    \A name \in hist.moved \cup RecordedNames : ChunksUploaded(name)

\* C2: when a run ends by a crash or by an upload failure, every file whose
\* chunks were not all uploaded is still in the data folder and its digest
\* is not in the persisted state.
C2_RetryableAfterFailure ==
    (pc = "idle" /\ exit.cause \in {"crash", "upload"}) =>
        \A x \in hist.loaded :
            ~ChunksUploaded(x[1]) =>
                /\ x[1] \in DOMAIN dataDir
                /\ DigestOf(x[2]) \notin DurableKeys

\* C3: a file that an earlier run archived and recorded and that is in the
\* data folder again, unmodified, is skipped by the run: it is not loaded
\* (and so neither moved nor recorded) a second time.
C3_SecondRunSkips ==
    pc # "idle" => \A x \in earlier : x \notin hist.loaded

\* C4: a file whose hash could not be computed is skipped: the sentinel is
\* not passed to is_processed, the file is not handed to the loader, not
\* archived and not recorded, no null key reaches the state, and the failure
\* does not end the run.
C4_HashFailureSkipsFile ==
    /\ None \notin hist.checked
    /\ \A n \in hist.hashFailed :
           n \notin LoadedNames \cup hist.loadFailed \cup hist.moved \cup RecordedNames
    /\ None \notin DOMAIN state.map
    /\ NullKey \notin DurableKeys
    /\ exit.cause # "hash_raised"

\* the documents handed to the splitter are those of the loaded files, all
\* of them, and of no file whose load raised
DocsAreTheLoaded ==
    /\ \A i \in 1..Len(docs) : docs[i].file \in LoadedNames
    /\ \A p \in hist.pages :
           Cardinality({i \in 1..Len(docs) : docs[i].file = p[1]}) = p[2]
    /\ splits = split_documents(docs)

\* C5 as stated: when ingest_docs returns, the documents of every loaded
\* file are in what was split, and exactly the loaded files are archived
\* and recorded.
C5_ExactlyLoadedArchived ==
    AtReturn =>
        /\ DocsAreTheLoaded
        /\ hist.moved = LoadedNames
        /\ RecordedNames = LoadedNames

\* C5 amended: when ingest_docs returns, the documents of every loaded file
\* are in what was split, no file whose load raised is archived or
\* recorded, and exactly the loaded files whose move succeeded are archived
\* and recorded.
C5_LoadedAndMovedArchived ==
    AtReturn =>
        /\ DocsAreTheLoaded
        /\ hist.moved = LoadedNames \ hist.moveFailed
        /\ RecordedNames = hist.moved
        /\ hist.loadFailed \cap (hist.moved \cup RecordedNames) = {}

\* one file failed to load, another was loaded, archived and recorded
C5_Witness ==
    /\ AtReturn
    /\ hist.loadFailed # {}
    /\ hist.moved # {}
    /\ RecordedNames = hist.moved

\* C6: an add_processed call whose write failed does not complete like a
\* successful one: the failure reaches the caller.
C6_WriteFailureSurfaced ==
    (last.op = "add_processed" /\ state.type = "dict" /\ last.w # "ok") =>
        result.exc # "none"

\* C7: whatever the backing file is at construction (absent, empty, not
\* JSON, not text, unreadable), StateManager() completes and the state is
\* the empty mapping.
C7_FailOpenLoad ==
    (/\ last.op = "construct"
     /\ \/ disk.kind \in {"absent", "empty", "garbage", "binary"}
        \/ last.ioerror) =>
        /\ result.exc = "none"
        /\ state = Dict(EmptyMap)

\* C8: after a successful add_processed, a fresh StateManager on the same
\* backing file holds exactly the mapping of the tracker: every hash
\* recorded on it is a key, the last hash maps to the last file name, and
\* no other key is present.
C8_RoundTrip ==
    (last.op = "add_processed" /\ last.w = "ok" /\ result.exc = "none") =>
        \A codec \in {"utf-8", "latin-1"} :
            LET fresh == _load_state(disk, codec, FALSE)
            IN  /\ fresh.exc = "none"
                /\ fresh.state.type = "dict"
                /\ fresh.state.map = state.map
                /\ \A r \in hist.recorded : is_processed(fresh.state, r[2]).value
                /\ fresh.state.map[last.h] = last.name

\* a second hash was recorded on a tracker that already held one
C8_Witness ==
    /\ last.op = "add_processed"
    /\ last.w = "ok"
    /\ Cardinality(DOMAIN state.map) = 2
    /\ disk.kind = "object"
    /\ DOMAIN disk.map = DOMAIN state.map

\* C9: compute_file_hash with an algorithm name that is not available
\* returns None and raises nothing.
C9_UnsupportedAlgoReturnsNone ==
    (last.op = "compute_file_hash" /\ last.algo \notin SupportedAlgos) =>
        /\ result.exc = "none"
        /\ result.value = None

Rendered ==
    \/ last.op = "print_citations"
    \/ last.op = "render_sources" /\ ~is_conversational(query)

\* the passage carries both a source and a page
BothKnown(d) == {"source", "page"} \subseteq DOMAIN d.metadata
NoneKnown(d) == DOMAIN d.metadata = {}

\* (normalized source, normalized page) of a passage that carries both
NormalPair(d) ==
    <<Replace(d.metadata["source"], "\\", "/"),
      IF IsNumber(d.metadata["page"]) THEN IntOf(d.metadata["page"]) ELSE d.metadata["page"]>>

CitationLines == SelectSeq(stdout, LAMBDA l : l.kind = "citation")

Occurrences(s, x) == Cardinality({j \in 1..Len(s) : s[j] = x})

\* s with every occurrence after the first removed
RECURSIVE FirstOccurrences(_)
FirstOccurrences(s) ==
    IF s = <<>> THEN <<>>
    ELSE LET front == FirstOccurrences(SubSeq(s, 1, Len(s) - 1))
         IN  IF Occurrences(front, s[Len(s)]) > 0 THEN front
             ELSE Append(front, s[Len(s)])

\* C13: among the passages whose source and page are both known, each
\* distinct (normalized source, normalized page) pair is emitted exactly
\* once, however many passages carry it; one citation line per emitted key.
C13_OneCitationPerPage ==
    Rendered =>
        /\ Len(CitationLines) = Len(cited)
        /\ \A i \in 1..Len(sources) :
               BothKnown(sources[i]) => Occurrences(cited, NormalPair(sources[i])) = 1

\* two passages of one page under two spellings of it, and one citation
C13_Witness ==
    /\ last.op = "print_citations"
    /\ Len(sources) = MaxSources
    /\ \E i, j \in 1..Len(sources) :
           /\ i < j
           /\ BothKnown(sources[i]) /\ BothKnown(sources[j])
           /\ sources[i] # sources[j]
           /\ NormalPair(sources[i]) = NormalPair(sources[j])
    /\ Len(CitationLines) < Len(sources)

\* C14: the emitted keys are the keys of the input in input order, every
\* occurrence after the first removed, and the citation lines follow that
\* order.
C14_FirstSeenOrder ==
    Rendered =>
        /\ cited = FirstOccurrences([i \in 1..Len(sources) |-> SourceKey(sources[i])])
        /\ Len(CitationLines) = Len(cited)
        /\ \A j \in 1..Len(cited) :
               /\ CitationLines[j].source = cited[j][1]
               /\ CitationLines[j].page = Format(cited[j][2])

\* P1, P2, P3 with the key of P3 that of P1: P1 then P2 are cited
C14_Witness ==
    /\ last.op = "print_citations"
    /\ Len(sources) = 3
    /\ SourceKey(sources[1]) = SourceKey(sources[3])
    /\ SourceKey(sources[1]) # SourceKey(sources[2])
    /\ cited = <<SourceKey(sources[1]), SourceKey(sources[2])>>

C16_EmptyEmitsNothing ==
    (last.op \in {"print_citations", "render_sources"} /\ sources = <<>>) =>
        /\ stdout = <<>>
        /\ cited = <<>>

\* print_citations has run on the empty list
C16_Witness ==
    /\ last.op = "print_citations"
    /\ sources = <<>>
    /\ stdout = <<>>

(***************************************************************************)
(* Properties of the configuration checks, the upload loop and the chat    *)
(* loops.                                                                  *)
(***************************************************************************)
\* C11: when the run of ingest.py ends because the index name is not in the
\* environment, no file has been loaded, moved to processed/ or recorded.
C11_ConfigFatalBeforeWork ==
    (pc = "idle" /\ exit.cause = "config") =>
        /\ exit.code = "1"
        /\ hist.loaded = {}
        /\ hist.moved = {}
        /\ hist.recorded = {}

\* C12: a batch whose upload raised ends the process with status 1 at that
\* batch: it is the only batch that failed, it and the batches after it
\* stay un-uploaded, and nothing of the process is left running.
C12_FailFastUpload ==
    hist.uploadFailed # {} =>
        /\ pc = "idle"
        /\ exit = Ended("1", "upload", "upload")
        /\ hist.uploadFailed = {uploaded}
        /\ uploaded < Len(splits)

\* the first batch was uploaded, the second failed
C12_Witness ==
    /\ pc = "idle"
    /\ exit.cause = "upload"
    /\ hist.uploadFailed = {batch_size}
    /\ uploaded = batch_size
    /\ Len(splits) > batch_size

HasLine(out, kind) == \E i \in 1..Len(out) : out[i].kind = kind

\* a chat turn has just called the chain (or failed to reach it)
TurnTaken == last'.op = "invoke" /\ calls' # calls

\* C17: a turn whose chain call fails shows an error and leaves the session
\* waiting for the next query; a turn that follows a failed one and whose
\* chain call succeeds is carried out in full: the chain gets the query and
\* the answer is shown, without an error.
C17_TurnFailureKeepsSession ==
    [][/\ (TurnTaken /\ result'.exc # "none") =>
              /\ pc' = pc
              /\ pc' \in {"cli_prompt", "web"}
              /\ HasLine(stdout', "error")
       /\ (TurnTaken /\ failed > 0 /\ result'.exc = "none") =>
              /\ pc' = pc
              /\ invoked' = Invoke(query', invoked'.chat_history)
              /\ HasLine(stdout', "answer")
              /\ ~HasLine(stdout', "error")]_vars

\* in the CLI, an answer with its citations after an earlier failed turn
C17_Witness ==
    /\ pc = "cli_prompt"
    /\ failed > 0
    /\ last.op = "invoke"
    /\ result.exc = "none"
    /\ HasLine(stdout, "answer")
    /\ HasLine(stdout, "citation")

\* C18: for every positive chunk_size the digest is that of the whole
\* content fed at once, and every file of the folder with the same bytes,
\* read with any positive chunk_size, has the same digest.
C18_DigestOfContentOnly ==
    (/\ last.op = "compute_file_hash"
     /\ last.file = "ok"
     /\ last.algo \in SupportedAlgos
     /\ last.chunk_size > 0) =>
        /\ result = Returned(HexDigest(last.algo, HasherUpdate(0, last.bytes)))
        /\ \A n \in DOMAIN dataDir, cs \in ChunkSizes :
               (dataDir[n] = last.bytes /\ cs > 0) =>
                   compute_file_hash("ok", dataDir[n], last.algo, cs) = result

\* a file of several chunks, with a copy under another name, was hashed
C18_Witness ==
    /\ last.op = "compute_file_hash"
    /\ last.file = "ok"
    /\ last.algo \in SupportedAlgos
    /\ last.chunk_size = 1
    /\ Len(last.bytes) = MaxFileLen
    /\ Cardinality(DOMAIN dataDir) = 2
    /\ result.exc = "none"
    /\ result.value # None

\* C19: within a run no digest is passed to add_processed under two file
\* names: the name stored for a digest is not overwritten.
C19_NoRecordRewritten ==
    \A r1, r2 \in hist.recorded :
        (r1[2] # None /\ r1[2] = r2[2]) => r1[1] = r2[1]

\* the keys a StateManager constructed on the file d would hold
KeysLoaded(d, codec) ==
    LET fresh == _load_state(d, codec, FALSE)
    IN  IF fresh.exc = "none" /\ fresh.state.type = "dict"
        THEN DOMAIN fresh.state.map ELSE {}

\* the step is an add_processed call that reaches the write
Writes == last'.op = "add_processed" /\ calls' # calls /\ state.type = "dict"

\* C20 as stated: whatever the step (a call, a failed or torn write, a
\* restart), every key of the backing file is still known to a StateManager
\* constructed on it afterwards.
C20_DurableRecordKept ==
    [][\A codec \in {"utf-8", "latin-1"} :
           DurableKeys \subseteq KeysLoaded(disk', codec)]_vars

\* C20 amended: the keys of the backing file are kept by every step but a
\* write that fails after the file was truncated, and a write by a tracker
\* that does not hold them.
C20_KeptByCompleteWrites ==
    [][(\/ ~Writes
        \/ last'.w = "open_fails"
        \/ last'.w = "ok" /\ DurableKeys \subseteq DOMAIN state.map) =>
           \A codec \in {"utf-8", "latin-1"} :
               DurableKeys \subseteq KeysLoaded(disk', codec)]_vars

\* a tracker that loaded one record from the file has written a second one
C20_Witness ==
    /\ last.op = "add_processed"
    /\ last.w = "ok"
    /\ Cardinality(hist.recorded) = 1
    /\ Cardinality(DurableKeys) = 2
    /\ \A codec \in {"utf-8", "latin-1"} : KeysLoaded(disk, codec) = DurableKeys

\* C21: add_processed is called for a file only after shutil.move of that
\* file has succeeded; a file whose move failed is not recorded; a failed
\* move does not end the archive loop: when ingest_docs returns, every file
\* of successful_files was moved and recorded, or its move failed.
C21_RecordOnlyAfterMove ==
    /\ RecordedNames \subseteq hist.moved
    /\ hist.moveFailed \cap RecordedNames = {}
    /\ (pc = "idle" /\ exit.at \in {"move", "record"}) => exit.cause \in {"crash", "config"}
    /\ AtReturn =>
           \A i \in 1..Len(successful_files) :
              LET name == successful_files[i][1]
              IN  \/ name \in hist.moveFailed /\ name \in DOMAIN dataDir
                  \/ name \in hist.moved /\ name \in RecordedNames

\* the move of the first file failed, the second file was moved and recorded
C21_Witness ==
    /\ AtReturn
    /\ Len(successful_files) = 2
    /\ successful_files[1][1] \in hist.moveFailed
    /\ successful_files[2][1] \in hist.moved \cap RecordedNames

\* the batches of a run, one after the other
RECURSIVE Concat(_)
Concat(ss) == IF ss = <<>> THEN <<>> ELSE Head(ss) \o Concat(Tail(ss))

\* C22: while no upload has failed the calls made so far are non-empty
\* batches of at most 50 chunks whose concatenation in call order is the
\* part of the list uploaded so far, and when the upload completes there
\* were ceil(n/50) calls and their concatenation is the whole list.
C22_BatchesCoverListInOrder ==
    (Stage = "upload" /\ hist.uploadFailed = {}) =>
        /\ \A b \in 1..Len(hist.batches) :
               Len(hist.batches[b]) \in 1..batch_size
        /\ Concat(hist.batches) = SubSeq(splits, 1, uploaded)
        /\ (pc = "idle" /\ exit.cause = "complete") =>
               /\ Len(hist.batches) = (Len(splits) + batch_size - 1) \div batch_size
               /\ Concat(hist.batches) = splits

\* a list of two full batches and one chunk more was uploaded in three calls
C22_Witness ==
    /\ pc = "idle"
    /\ exit.cause = "complete"
    /\ Len(splits) = 2 * batch_size + 1
    /\ Len(hist.batches) = 3
    /\ Len(hist.batches[3]) = 1

\* the candidate files of the run: the PDFs os.listdir returned
Candidates == {n \in DOMAIN dataDir \cup hist.moved : IsPdf(n)}

\* C23: the splitter is called at most once in a run; when it has been
\* called, every candidate file was hashed and checked, and skipped or
\* handed to the loader, and what was split are the documents of all the
\* loaded files; no file is moved or recorded unless the split has
\* returned a non-empty result.
C23_SplitOnceAfterScan ==
    /\ hist.splitCalls <= 1
    /\ hist.splitCalls = 1 =>
           /\ pdf_files = <<>>
           /\ \A n \in Candidates :
                  /\ n \in hist.hashed \cup hist.hashFailed
                  /\ n \in hist.skipped \cup LoadedNames \cup hist.loadFailed
           /\ pc # "idle" =>
                  /\ \A i \in 1..Len(docs) : docs[i].file \in LoadedNames
                  /\ \A q \in hist.pages :
                         Cardinality({i \in 1..Len(docs) : docs[i].file = q[1]}) = q[2]
           /\ pc \in {"move", "record", "upload"} => splits = split_documents(docs)
    /\ (hist.moved \cup hist.moveFailed \cup RecordedNames # {}) =>
           /\ hist.splitCalls = 1
           /\ splits # <<>>

\* two files were loaded, their documents split together, and one is moved
C23_Witness ==
    /\ hist.splitCalls = 1
    /\ Cardinality(LoadedNames) = 2
    /\ Len(splits) = 2 * (batch_size + 1)
    /\ hist.moved # {}

\* the name ends in .pdf, in whatever case
HasPdfExtension(n) == n[2] \in {"pdf", "PDF"}

\* the run has hashed, checked, loaded, moved or recorded the file
Touched(n) ==
    \/ n \in hist.hashed \cup hist.hashFailed \cup hist.skipped
    \/ n \in LoadedNames \cup hist.loadFailed
    \/ n \in hist.moved \cup hist.moveFailed \cup RecordedNames

\* C24: a file whose name does not end in .pdf is never visited by the scan
\* loop, never hashed, loaded, moved or recorded, and it stays in the data
\* folder; a run that found no file ending in .pdf has ended with status 0
\* and has hashed, loaded, moved and recorded nothing.
C24_OnlyPdfCandidates ==
    /\ \A n \in Names :
           ~HasPdfExtension(n) =>
               /\ ~Touched(n)
               /\ \A i \in 1..Len(pdf_files) : pdf_files[i] # n
               /\ n \notin DOMAIN processedDir
               /\ \A k \in DOMAIN state.map : state.map[k] # n
    /\ (runs > 0 /\ exit.code # "none" /\ ~\E n \in Candidates : HasPdfExtension(n)) =>
           /\ exit.code = "0"
           /\ hist = NoHist
           /\ splits = <<>>
    /\ pc # "idle" => \E n \in Candidates : HasPdfExtension(n)

\* the second run found n.txt alone in the data folder and exited with 0
C24_Witness ==
    /\ runs = 2
    /\ pc = "idle"
    /\ exit.code = "0"
    /\ DOMAIN dataDir = {<<"n", "txt">>}
    /\ DOMAIN processedDir = PdfNames
    /\ hist = NoHist

\* the two passages carry the same known page and sources that are one
\* path up to the separator
SamePageOfOneFile(d, e) ==
    /\ BothKnown(d) /\ BothKnown(e)
    /\ d.metadata["page"] = e.metadata["page"]
    /\ d.metadata["page"] # PyStr(UnknownText)
    /\ Replace(d.metadata["source"], "\\", "/") = Replace(e.metadata["source"], "\\", "/")

HasBackslash(t) == \E i \in 1..Len(t) : t[i] = "\\"

\* C25: in both renderers, two passages whose sources differ only in the
\* path separator and that carry the same known page give exactly one
\* citation, and no source shown or kept in a key holds a backslash.
C25_SeparatorNormalized ==
    Rendered =>
        /\ \A a, b \in 1..Len(sources) :
               SamePageOfOneFile(sources[a], sources[b]) =>
                   Occurrences(cited, NormalPair(sources[a])) = 1
        /\ Len(CitationLines) = Len(cited)
        /\ \A j \in 1..Len(cited) : CitationLines[j].source = cited[j][1]
        /\ \A j \in 1..Len(stdout) : ~HasBackslash(stdout[j].source)
        /\ \A j \in 1..Len(cited) : ~HasBackslash(cited[j][1])

\* d\f page 1 and d/f page 1 were retrieved and one citation was shown
C25_Witness ==
    /\ Rendered
    /\ Len(sources) = 2
    /\ sources[1].metadata = [source |-> WinPath, page |-> PyInt(<<"1">>)]
    /\ sources[2].metadata = [source |-> PosixPath, page |-> PyInt(<<"1">>)]
    /\ Len(cited) = 1
    /\ cited[1][1] = PosixPath

\* the snippet of a line: st.caption shows it between double quotes
SnippetOf(l) ==
    IF l.kind = "caption" THEN SubSeq(l.text, 2, Len(l.text) - 1) ELSE l.text

\* the citations of an output, in order: <<source, page, snippet>>, the
\* snippet being the line that follows the citation line
RECURSIVE Citations(_)
Citations(out) ==
    IF Len(out) < 2 THEN <<>>
    ELSE IF Head(out).kind = "citation"
    THEN <<<<Head(out).source, Head(out).page, SnippetOf(out[2])>>>>
         \o Citations(Tail(Tail(out)))
    ELSE Citations(Tail(out))

\* the prompts after which the web chat shows the sources
ShowingPrompts == {p \in {AskPrompt, ThisPrompt, HiPrompt} : ~is_conversational(p)}

\* C26: for a non-empty list of passages, what the web chat showed after a
\* prompt that shows sources are the citations print_citations gives for
\* the list, and what print_citations printed are the citations the web
\* chat gives: same keys, same source, page and snippet, same order.
C26_WebAndCliCiteAlike ==
    (Rendered /\ sources # <<>>) =>
        /\ Len(Citations(stdout)) = Len(cited)
        /\ last.op = "render_sources" =>
               /\ cited = print_citations(sources).keys
               /\ Citations(stdout) = Citations(print_citations(sources).out)
        /\ last.op = "print_citations" =>
               \A p \in ShowingPrompts :
                   /\ cited = render_sources(sources, p).keys
                   /\ Citations(stdout) = Citations(render_sources(sources, p).out)

\* the web chat showed two citations for three passages, one of them under
\* a fallback key, one with a page given as a float
C26_Witness ==
    /\ last.op = "render_sources"
    /\ ~is_conversational(query)
    /\ Len(sources) = 3
    /\ Len(cited) = 2
    /\ \E j \in 1..2 : Len(cited[j]) = 3
    /\ \E a \in 1..3 : BothKnown(sources[a]) /\ sources[a].metadata["page"][1] = "float"

\* human, ai, human, ai, ...: every human turn is followed by its ai answer
Alternates(h) ==
    /\ Len(h) % 2 = 0
    /\ \A i \in 1..Len(h) : h[i][1] = (IF i % 2 = 1 THEN "human" ELSE "ai")

\* C27: in both chat programs the chat_history passed to the chain is a
\* sequence of human/ai pairs: it alternates, starts with a human turn,
\* ends with an ai turn and holds no human turn without its answer, also
\* after turns whose chain call failed.
C27_HistoryAlternates ==
    invoked.made => Alternates(invoked.chat_history)

\* C28: once a tracker is constructed its state is a mapping, whatever the
\* backing file held, and no is_processed or add_processed call on it
\* raises a TypeError.
C28_StateIsMapping ==
    /\ (last.op = "construct" /\ result.exc = "none") => state.type = "dict"
    /\ last.op \in {"is_processed", "add_processed"} => result.exc # "TypeError"

====
